---- MODULE Spec2Model ----
(***************************************************************************)
(* A model of agentops/helpers.py: the process-wide instance registry      *)
(* (singleton, conditional_singleton, clear_singletons), the sanitizer     *)
(* filter_unjsonable and the serializer safe_serialize.                    *)
(*                                                                         *)
(* The registry is modelled at the granularity at which CPython may switch *)
(* threads: one step per global load, per dict operation and per           *)
(* constructor call of getinstance.  The global name ao_instances is a     *)
(* reference into a heap of dict objects, because clear_singletons rebinds *)
(* the name to a new dict instead of emptying the old one.                 *)
(***************************************************************************)
EXTENDS Integers, Sequences, FiniteSets, TLC

VARIABLES
    heap,          \* the dict objects ever bound to ao_instances, by identity
    ao_instances,  \* the global name: the identity of the dict it is bound to
    instances,     \* every object a constructor call has built, by identity
    pc,            \* per thread: its position inside getinstance
    call,          \* per thread: the frame of its current getinstance call
    history,       \* the completed calls, in order of completion
    sched,         \* how the callers are scheduled: one at a time, or threads
    args,          \* the values a caller has built so far, innermost last
    input,         \* the value handed to filter_unjsonable / safe_serialize
    filtered,      \* what filter_unjsonable(input) returned
    cleaned_obj,   \* safe_serialize's local: the input after the strip phase
    defaulted,     \* the calls the JSON encoder made to safe_serialize's default
    output,        \* what the last applied function returned
    phase          \* which function has been applied to input

vars == <<heap, ao_instances, instances, pc, call, history, sched,
          args, input, filtered, cleaned_obj, defaulted, output, phase>>

valVars == <<args, input, filtered, cleaned_obj, defaulted, output, phase>>

(***************************************************************************)
(* Bounds of the model.                                                    *)
(***************************************************************************)
MaxCalls  == 3     \* getinstance calls of one behaviour, made one at a time
MaxRacing == 2     \* getinstance calls of one behaviour, made from threads
MaxClears == 1     \* clear_singletons calls of one behaviour

Threads == {1, 2}
Classes == {"C", "D"}
\* the callers build class C from an argument they vary and class D always
\* from the same one; callers that race all pass the same argument
CtorArgs(c) == IF c = "C" /\ sched # "threads" THEN {1, 2} ELSE {1}

MaxNodes == 4      \* nodes (leaves and containers) of an input value

(***************************************************************************)
(* Python values, tagged by type.  A dict is the sequence of its entries   *)
(* in insertion order, with distinct string keys.                          *)
(***************************************************************************)
None == [t |-> "none"]
Bool(b) == [t |-> "bool", b |-> b]
Num(n) == [t |-> "num", n |-> n]
Str(s) == [t |-> "str", s |-> s]
Uuid(h) == [t |-> "uuid", hex |-> h]
Obj(c, caps) == [t |-> "obj", cls |-> c, caps |-> caps]
List(items) == [t |-> "list", items |-> items]
Dict(entries) == [t |-> "dict", entries |-> entries]
Entry(k, v) == [k |-> k, v |-> v]

\* the singleton the literal ... denotes
Ellipsis == Obj("ellipsis", {})

\* str(u) of a UUID
string_form(u) == Str(u.hex)

IsInstance(x, types) == x.t \in types

\* the serialization methods safe_serialize probes for, and what each returns
Capabilities == {"model_dump_json", "to_json", "json", "to_dict", "dict"}
CallMethod(o, m) ==
    IF m \in {"to_dict", "dict"}
    THEN Dict(<<Entry("via", Str(o.cls \o "." \o m))>>)
    ELSE Str(o.cls \o "." \o m)

(***************************************************************************)
(* is_jsonable: json.dumps(x) succeeds                                     *)
(***************************************************************************)
RECURSIVE is_jsonable_no_str(_)
\* (a probe that fails on strings)
is_jsonable_no_str(x) ==
    CASE x.t \in {"none", "bool", "num"} -> TRUE
      [] x.t = "list" -> \A i \in 1..Len(x.items) : is_jsonable_no_str(x.items[i])
      [] x.t = "dict" ->
             \A i \in 1..Len(x.entries) : is_jsonable_no_str(x.entries[i].v)
      [] OTHER -> FALSE

RECURSIVE is_jsonable(_)
is_jsonable(x) ==
    CASE x.t \in {"none", "bool", "num", "str"} -> TRUE
      [] x.t = "list" -> \A i \in 1..Len(x.items) : is_jsonable(x.items[i])
      [] x.t = "dict" -> \A i \in 1..Len(x.entries) : is_jsonable(x.entries[i].v)
      [] OTHER -> FALSE

(***************************************************************************)
(* filter_unjsonable                                                       *)
(***************************************************************************)
RECURSIVE filter_dict(_)
filter_dict(obj) ==
    IF IsInstance(obj, {"dict"})
    THEN Dict([i \in 1..Len(obj.entries) |->
                 LET k == obj.entries[i].k
                     v == obj.entries[i].v
                 IN  Entry(k, IF IsInstance(v, {"dict", "list"}) \/ is_jsonable(v)
                              THEN filter_dict(v)
                              ELSE IF IsInstance(v, {"uuid"}) THEN string_form(v)
                                   ELSE Str(""))])
    ELSE IF IsInstance(obj, {"list"})
    THEN List([i \in 1..Len(obj.items) |->
                 LET x == obj.items[i]
                 IN  IF IsInstance(x, {"dict", "list"}) \/ is_jsonable(x)
                     THEN filter_dict(x)
                     ELSE IF IsInstance(x, {"uuid"}) THEN string_form(x)
                          ELSE Str("")])
    ELSE IF is_jsonable(obj) \/ IsInstance(obj, {"uuid"}) THEN obj ELSE Str("")

filter_unjsonable(d) == filter_dict(d)

(***************************************************************************)
(* safe_serialize                                                          *)
(***************************************************************************)
HasAttr(o, name) == o.t = "obj" /\ name \in o.caps

\* (a fallback that probes "dict" before "to_dict")
default_dict_first(o) ==
    IF IsInstance(o, {"uuid"}) THEN string_form(o)
    ELSE IF HasAttr(o, "model_dump_json") THEN CallMethod(o, "model_dump_json")
    ELSE IF HasAttr(o, "to_json") THEN CallMethod(o, "to_json")
    ELSE IF HasAttr(o, "json") THEN CallMethod(o, "json")
    ELSE IF HasAttr(o, "dict") THEN CallMethod(o, "dict")
    ELSE IF HasAttr(o, "to_dict") THEN CallMethod(o, "to_dict")
    ELSE Str("<<non-serializable: " \o o.cls \o ">>")

default(o) ==
    IF IsInstance(o, {"uuid"}) THEN string_form(o)
    ELSE IF HasAttr(o, "model_dump_json") THEN CallMethod(o, "model_dump_json")
    ELSE IF HasAttr(o, "to_json") THEN CallMethod(o, "to_json")
    ELSE IF HasAttr(o, "json") THEN CallMethod(o, "json")
    ELSE IF HasAttr(o, "to_dict") THEN CallMethod(o, "to_dict")
    ELSE IF HasAttr(o, "dict") THEN CallMethod(o, "dict")
    ELSE Str("<<non-serializable: " \o o.cls \o ">>")

\* the condition of the dict comprehension
Wanted(e) == e.v # None /\ e.v # Ellipsis /\ e.k # "self"

RECURSIVE remove_unwanted_keep_self(_)
\* (a strip phase that forgets the "self" key)
remove_unwanted_keep_self(value) ==
    IF IsInstance(value, {"dict"})
    THEN LET WantedButSelf(e) == e.v # None /\ e.v # Ellipsis
             kept == SelectSeq(value.entries, WantedButSelf)
         IN  Dict([i \in 1..Len(kept) |->
                     Entry(kept[i].k, remove_unwanted_keep_self(kept[i].v))])
    ELSE IF IsInstance(value, {"list"})
    THEN List([i \in 1..Len(value.items) |->
                 remove_unwanted_keep_self(value.items[i])])
    ELSE value

RECURSIVE remove_unwanted_items(_)
remove_unwanted_items(value) ==
    IF IsInstance(value, {"dict"})
    THEN LET kept == SelectSeq(value.entries, Wanted)
         IN  Dict([i \in 1..Len(kept) |->
                     Entry(kept[i].k, remove_unwanted_items(kept[i].v))])
    ELSE IF IsInstance(value, {"list"})
    THEN List([i \in 1..Len(value.items) |-> remove_unwanted_items(value.items[i])])
    ELSE value

\* ", ".join(parts)
RECURSIVE Join(_)
Join(parts) ==
    IF Len(parts) = 0 THEN ""
    ELSE IF Len(parts) = 1 THEN parts[1]
    ELSE parts[1] \o ", " \o Join(Tail(parts))

Quoted(s) == "\"" \o s \o "\""

\* json.dumps(o, default=default): the JSON text
RECURSIVE json_dumps(_)
json_dumps(o) ==
    CASE o.t = "none" -> "null"
      [] o.t = "bool" -> IF o.b THEN "true" ELSE "false"
      [] o.t = "num" -> ToString(o.n)
      [] o.t = "str" -> Quoted(o.s)
      [] o.t = "list" ->
             "[" \o Join([i \in 1..Len(o.items) |-> json_dumps(o.items[i])]) \o "]"
      [] o.t = "dict" ->
             "{" \o Join([i \in 1..Len(o.entries) |->
                            Quoted(o.entries[i].k) \o ": "
                                \o json_dumps(o.entries[i].v)]) \o "}"
      [] OTHER -> json_dumps(default(o))

\* the calls to default the encoder makes while encoding o
RECURSIVE DefaultCalls(_)
DefaultCalls(o) ==
    CASE o.t \in {"none", "bool", "num", "str"} -> {}
      [] o.t = "list" -> UNION {DefaultCalls(o.items[i]) : i \in 1..Len(o.items)}
      [] o.t = "dict" ->
             UNION {DefaultCalls(o.entries[i].v) : i \in 1..Len(o.entries)}
      [] OTHER -> {[arg |-> o, ret |-> default(o)]} \cup DefaultCalls(default(o))

(***************************************************************************)
(* Keyword arguments: a function from argument names to values.            *)
(***************************************************************************)
PlainKwargs(c) == {[x |-> a] : a \in CtorArgs(c)}
\* callers that race for the registry never bypass it
FlagKwargs(c) ==
    IF sched = "threads" THEN {}
    ELSE {[x |-> a, use_singleton |-> FALSE] : a \in CtorArgs(c)}

\* kwargs.pop(name, default): the value removed, and the mapping left behind
PopValue(kw, name, otherwise) == IF name \in DOMAIN kw THEN kw[name] ELSE otherwise
PopRest(kw, name) == [k \in DOMAIN kw \ {name} |-> kw[k]]

(***************************************************************************)
(* Dict objects: a set of entries [k, v].  STORE_SUBSCR replaces the entry *)
(* of the key, BINARY_SUBSCR raises KeyError when the key has none.        *)
(***************************************************************************)
NewDict == {}
Contains(d, k) == \E e \in d : e.k = k
\* (a store that adds an entry without replacing the key's old one)
DictStoreAdding(d, k, v) == d \cup {[k |-> k, v |-> v]}
DictStore(d, k, v) == {e \in d : e.k # k} \cup {[k |-> k, v |-> v]}
DictGet(d, k) == (CHOOSE e \in d : e.k = k).v

KeyError == 0      \* the result recorded for a call that raised KeyError

NoFrame == [fn |-> "none"]

Idle(t) == pc[t] = "idle"
Started == Len(history) + Cardinality({t \in Threads : ~Idle(t)})

\* Sequential callers: a call runs to completion before anything else happens.
\* Threads: the interpreter may switch between any two steps.
CanRun(t) == sched = "threads" \/ \A o \in Threads \ {t} : Idle(o)
\* Threads are interchangeable: a new call takes the lowest free thread.
CanBegin(t) ==
    /\ Idle(t)
    /\ CanRun(t)
    /\ \A o \in Threads : o < t => ~Idle(o)
    /\ Started < (IF sched = "threads" THEN MaxRacing ELSE MaxCalls)
CanClear == sched = "threads" \/ \A t \in Threads : Idle(t)

InitRegistry ==
    /\ heap = <<NewDict>>
    /\ ao_instances = 1
    /\ instances = <<>>
    /\ pc = [t \in Threads |-> "idle"]
    /\ call = [t \in Threads |-> NoFrame]
    /\ history = <<>>

(***************************************************************************)
(* singleton(class_).getinstance                                           *)
(***************************************************************************)
CallSingleton(t, c, kw) ==
    /\ CanBegin(t)
    /\ pc' = [pc EXCEPT ![t] = "check_load"]
    /\ call' = [call EXCEPT ![t] =
                   [fn |-> "singleton", cls |-> c, kwargs |-> kw, ctor |-> kw,
                    use |-> TRUE, start |-> ao_instances, ref |-> 0,
                    tmp |-> 0, made |-> FALSE]]
    /\ UNCHANGED <<heap, ao_instances, instances, history, sched, valVars>>

(***************************************************************************)
(* conditional_singleton(class_).getinstance: use_singleton is popped from *)
(* kwargs (default True) and selects the branch.                           *)
(***************************************************************************)
CallConditional(t, c, kw) ==
    /\ CanBegin(t)
    /\ LET use_singleton == PopValue(kw, "use_singleton", TRUE)
       IN  /\ pc' = [pc EXCEPT ![t] = IF use_singleton THEN "check_load"
                                                      ELSE "bypass"]
           /\ call' = [call EXCEPT ![t] =
                   [fn |-> "conditional", cls |-> c, kwargs |-> kw,
                    ctor |-> PopRest(kw, "use_singleton"),
                    use |-> use_singleton, start |-> ao_instances, ref |-> 0,
                    tmp |-> 0, made |-> FALSE]]
    /\ UNCHANGED <<heap, ao_instances, instances, history, sched, valVars>>

\* LOAD_GLOBAL ao_instances: the frame now holds the dict the name is bound to
LoadGlobal(t, at, to) ==
    /\ pc[t] = at
    /\ CanRun(t)
    /\ pc' = [pc EXCEPT ![t] = to]
    /\ call' = [call EXCEPT ![t].ref = ao_instances]
    /\ UNCHANGED <<heap, ao_instances, instances, history, sched, valVars>>

\* if class_ not in ao_instances:
CheckLoad(t) == LoadGlobal(t, "check_load", "check")

\* (a getinstance that constructs without looking at the registry)
CheckMissingAlways(t) ==
    /\ pc[t] = "check"
    /\ CanRun(t)
    /\ pc' = [pc EXCEPT ![t] = "construct"]
    /\ call' = [call EXCEPT ![t].ref = 0]
    /\ UNCHANGED <<heap, ao_instances, instances, history, sched, valVars>>

CheckMissing(t) ==
    /\ pc[t] = "check"
    /\ CanRun(t)
    /\ pc' = [pc EXCEPT ![t] =
                 IF ~Contains(heap[call[t].ref], call[t].cls) THEN "construct"
                                                              ELSE "return_load"]
    /\ call' = [call EXCEPT ![t].ref = 0]
    /\ UNCHANGED <<heap, ao_instances, instances, history, sched, valVars>>

\* class_(args, kwargs): a new object, distinct from every earlier one
NewInstance(c, kw) == Append(instances, [cls |-> c, kwargs |-> kw])

Construct(t) ==
    /\ pc[t] = "construct"
    /\ CanRun(t)
    /\ instances' = NewInstance(call[t].cls, call[t].ctor)
    /\ call' = [call EXCEPT ![t].tmp = Len(instances) + 1, ![t].made = TRUE]
    /\ pc' = [pc EXCEPT ![t] = "store_load"]
    /\ UNCHANGED <<heap, ao_instances, history, sched, valVars>>

\* ao_instances[class_] = <the new object>
StoreLoad(t) == LoadGlobal(t, "store_load", "store")

StoreSubscr(t) ==
    /\ pc[t] = "store"
    /\ CanRun(t)
    /\ heap' = [heap EXCEPT ![call[t].ref] =
                   DictStore(heap[call[t].ref], call[t].cls, call[t].tmp)]
    /\ pc' = [pc EXCEPT ![t] = "return_load"]
    /\ call' = [call EXCEPT ![t].ref = 0, ![t].tmp = 0]
    /\ UNCHANGED <<ao_instances, instances, history, sched, valVars>>

\* return ao_instances[class_]
ReturnLoad(t) == LoadGlobal(t, "return_load", "return")

Completed(t, result) ==
    [fn |-> call[t].fn, cls |-> call[t].cls, kwargs |-> call[t].kwargs,
     use |-> call[t].use, made |-> call[t].made, start |-> call[t].start,
     result |-> result]

ReturnSubscr(t) ==
    /\ pc[t] = "return"
    /\ CanRun(t)
    /\ history' = Append(history,
                     Completed(t, IF Contains(heap[call[t].ref], call[t].cls)
                                  THEN DictGet(heap[call[t].ref], call[t].cls)
                                  ELSE KeyError))
    /\ pc' = [pc EXCEPT ![t] = "idle"]
    /\ call' = [call EXCEPT ![t] = NoFrame]
    /\ UNCHANGED <<heap, ao_instances, instances, sched, valVars>>

\* (a bypass branch that also caches what it builds)
BypassCaching(t) ==
    /\ pc[t] = "bypass"
    /\ CanRun(t)
    /\ instances' = NewInstance(call[t].cls, call[t].ctor)
    /\ heap' = [heap EXCEPT ![ao_instances] =
                   DictStore(heap[ao_instances], call[t].cls, Len(instances) + 1)]
    /\ history' = Append(history,
                     [Completed(t, Len(instances) + 1) EXCEPT !.made = TRUE])
    /\ pc' = [pc EXCEPT ![t] = "idle"]
    /\ call' = [call EXCEPT ![t] = NoFrame]
    /\ UNCHANGED <<ao_instances, sched, valVars>>

\* else: return class_(args, kwargs)
Bypass(t) ==
    /\ pc[t] = "bypass"
    /\ CanRun(t)
    /\ instances' = NewInstance(call[t].cls, call[t].ctor)
    /\ history' = Append(history,
                     [Completed(t, Len(instances) + 1) EXCEPT !.made = TRUE])
    /\ pc' = [pc EXCEPT ![t] = "idle"]
    /\ call' = [call EXCEPT ![t] = NoFrame]
    /\ UNCHANGED <<heap, ao_instances, sched, valVars>>

\* (a reset that drops the entries of one class only)
clear_selected ==
    /\ CanClear
    /\ Len(heap) <= MaxClears
    /\ heap' = Append(heap, {e \in heap[ao_instances] : e.k # "C"})
    /\ ao_instances' = Len(heap) + 1
    /\ UNCHANGED <<instances, pc, call, history, sched, valVars>>

(***************************************************************************)
(* clear_singletons: global ao_instances; ao_instances = {}                *)
(***************************************************************************)
clear_singletons ==
    /\ CanClear
    /\ Len(heap) <= MaxClears
    /\ heap' = Append(heap, NewDict)
    /\ ao_instances' = Len(heap) + 1
    /\ UNCHANGED <<instances, pc, call, history, sched, valVars>>

Next ==
    \/ \E t \in Threads, c \in Classes : \E kw \in PlainKwargs(c) :
           CallSingleton(t, c, kw)
    \/ \E t \in Threads, c \in Classes : \E kw \in PlainKwargs(c) \cup FlagKwargs(c) :
           CallConditional(t, c, kw)
    \/ \E t \in Threads : CheckLoad(t)
    \/ \E t \in Threads : CheckMissing(t)
    \/ \E t \in Threads : Construct(t)
    \/ \E t \in Threads : StoreLoad(t)
    \/ \E t \in Threads : StoreSubscr(t)
    \/ \E t \in Threads : ReturnLoad(t)
    \/ \E t \in Threads : ReturnSubscr(t)
    \/ \E t \in Threads : Bypass(t)
    \/ clear_singletons

\* the steps of callers that race for the registry
NextThreads ==
    \/ \E t \in Threads, c \in Classes : \E kw \in PlainKwargs(c) :
           CallSingleton(t, c, kw)
    \/ \E t \in Threads, c \in Classes : \E kw \in PlainKwargs(c) :
           CallConditional(t, c, kw)
    \/ \E t \in Threads : CheckLoad(t)
    \/ \E t \in Threads : CheckMissing(t)
    \/ \E t \in Threads : Construct(t)
    \/ \E t \in Threads : StoreLoad(t)
    \/ \E t \in Threads : StoreSubscr(t)
    \/ \E t \in Threads : ReturnLoad(t)
    \/ \E t \in Threads : ReturnSubscr(t)
    \/ clear_singletons

InitValIdle ==
    /\ args = <<>>
    /\ input = None
    /\ filtered = None
    /\ cleaned_obj = None
    /\ defaulted = {}
    /\ output = None
    /\ phase = "unused"

Init == InitRegistry /\ sched = "sequential" /\ InitValIdle
InitThreads == InitRegistry /\ sched = "threads" /\ InitValIdle
InitEither == InitRegistry /\ sched \in {"sequential", "threads"} /\ InitValIdle

\* registry calls made one after the other
Spec == Init /\ [][Next]_vars
\* registry calls made from threads
SpecThreads == InitThreads /\ [][NextThreads]_vars
\* registry calls made either way
SpecEither == InitEither /\ [][Next]_vars

(***************************************************************************)
(* Properties of the registry.                                             *)
(***************************************************************************)
Calls == 1..Len(history)
Registry == heap[ao_instances]
UsesRegistry(i) == history[i].use
IsBypass(i) == history[i].fn = "conditional" /\ ~history[i].use
\* calls for the same class with no clear_singletons between them
SameKey(i, j) ==
    /\ history[i].cls = history[j].cls
    /\ history[i].start = history[j].start
\* the first registry-using call for call j's class since the last clear
FirstOf(j) ==
    CHOOSE i \in Calls :
        /\ UsesRegistry(i) /\ SameKey(i, j)
        /\ \A k \in Calls : UsesRegistry(k) /\ SameKey(k, j) => i <= k
\* the arguments a call hands to the constructor
PassedOn(h) ==
    IF h.fn = "conditional"
    THEN [k \in DOMAIN h.kwargs \ {"use_singleton"} |-> h.kwargs[k]]
    ELSE h.kwargs

\* C1: with calls made one after the other and no clear_singletons between
\* them, every singleton(C) call returns the same instance of C: the one the
\* first call built from the first call's arguments; no later call invokes the
\* constructor, whatever arguments it is given.
C1_SameInstance ==
    \A j \in Calls : history[j].fn = "singleton" =>
        LET i == FirstOf(j)
        IN  /\ history[j].result # KeyError
            /\ history[j].result = history[i].result
            /\ instances[history[j].result] =
                   [cls |-> history[j].cls, kwargs |-> PassedOn(history[i])]
            /\ history[j].made = (i = j)

C1_Witness ==
    \E i, j \in Calls :
        /\ i < j /\ SameKey(i, j)
        /\ history[i].fn = "singleton" /\ history[j].fn = "singleton"
        /\ history[i].kwargs # history[j].kwargs
        /\ history[j].result = history[i].result
        /\ instances[history[j].result].kwargs = history[i].kwargs
        /\ ~history[j].made

\* what C2 says of the calls completed so far
C2_BypassState ==
    /\ \A j \in Calls : IsBypass(j) =>
           /\ history[j].made
           /\ history[j].result # KeyError
           /\ instances[history[j].result] =
                  [cls |-> history[j].cls, kwargs |-> PassedOn(history[j])]
           /\ \A i \in Calls \ {j} : history[i].result # history[j].result
           /\ \A d \in 1..Len(heap) : \A e \in heap[d] :
                  e.v # history[j].result
    /\ \A j \in Calls : UsesRegistry(j) =>
           /\ history[j].result = history[FirstOf(j)].result
           /\ history[j].made = (FirstOf(j) = j)

\* a step taken by a call that runs with use_singleton false
BypassStep ==
    \E t \in Threads :
        /\ pc'[t] # pc[t]
        /\ \/ pc[t] = "bypass"
           \/ pc'[t] = "bypass"

\* C2: a conditional_singleton(C)(..., use_singleton=False) call builds and
\* returns a fresh instance that no other call returns and that no registry
\* dict holds, no step of it changes the registry, and every registry-using
\* call still returns what the first registry-using call for its class built,
\* constructing exactly when it is that first call.
C2_Bypass ==
    /\ []C2_BypassState
    /\ [][BypassStep => heap' = heap /\ ao_instances' = ao_instances]_vars

C2_Witness ==
    \E i, j, k \in Calls :
        /\ i < j /\ j < k
        /\ IsBypass(i) /\ IsBypass(j) /\ UsesRegistry(k)
        /\ SameKey(i, j) /\ SameKey(j, k)
        /\ history[i].result # history[j].result
        /\ history[k].made
        /\ Registry = {[k |-> history[k].cls, v |-> history[k].result]}

\* a step that is a clear_singletons call: the global name is rebound
ClearStep == ao_instances' # ao_instances

\* the first registry-using call for C after a clear builds an instance that
\* no registry dict before the clear ever held
FirstAfterClearFresh ==
    \A j \in Calls :
        (UsesRegistry(j) /\ history[j].start > 1 /\ FirstOf(j) = j) =>
            /\ history[j].made
            /\ history[j].result # KeyError
            /\ \A d \in 1..(history[j].start - 1) : \A e \in heap[d] :
                   e.v # history[j].result

\* every entry of the registry is still in it after the step
EntriesKept == \A e \in Registry : e \in heap'[ao_instances']

\* C3 (as stated): clear_singletons removes every entry at once, the first
\* singleton(C)() call after it constructs an instance distinct from every
\* instance cached before, and without a clear an existing entry is never
\* removed or replaced.
C3_Original ==
    /\ [][ClearStep => heap'[ao_instances'] = {}]_vars
    /\ []FirstAfterClearFresh
    /\ [][~ClearStep => EntriesKept]_vars

\* C3 (amended): clear_singletons removes every entry at once; when registry
\* calls are made one after the other, the first singleton(C)() call after it
\* constructs an instance distinct from every instance cached before, and
\* without a clear an existing entry is never removed or replaced.
C3_Sequential ==
    /\ [][ClearStep => heap'[ao_instances'] = {}]_vars
    /\ [](sched = "sequential" => FirstAfterClearFresh)
    /\ [][(sched = "sequential" /\ ~ClearStep) => EntriesKept]_vars

C3_Witness ==
    /\ sched = "sequential"
    /\ \E i, j \in Calls :
        /\ i < j
        /\ history[i].cls = history[j].cls
        /\ UsesRegistry(i) /\ UsesRegistry(j)
        /\ history[i].start < history[j].start
        /\ [k |-> history[i].cls, v |-> history[i].result]
               \in heap[history[i].start]
        /\ history[j].made
        /\ history[j].result # history[i].result
        /\ Registry = {[k |-> history[j].cls, v |-> history[j].result]}

\* C9: two threads calling singleton(C)() while C has no entry can both find
\* it missing, both construct, the later insert replaces the earlier entry and
\* the calls return different instances; every dict the registry name was ever
\* bound to holds at most one entry per class, an instance of that class.
C9_OneEntryPerClass ==
    \A d \in 1..Len(heap) :
        /\ \A e, f \in heap[d] : e.k = f.k => e = f
        /\ \A e \in heap[d] :
               /\ e.v \in 1..Len(instances)
               /\ instances[e.v].cls = e.k

C9_Witness ==
    /\ sched = "threads"
    /\ Len(heap) = 1
    /\ \E i, j \in Calls :
        /\ i < j
        /\ history[i].fn = "singleton" /\ history[j].fn = "singleton"
        /\ history[i].cls = history[j].cls
        /\ history[i].made /\ history[j].made
        /\ history[i].result # KeyError /\ history[j].result # KeyError
        /\ history[i].result # history[j].result
        /\ Cardinality({e \in Registry : e.k = history[i].cls}) = 1
        /\ [k |-> history[j].cls, v |-> history[j].result] \in Registry

\* C10: every registry-using getinstance call returns an instance of its
\* class, also when clear_singletons runs in another thread during the call:
\* the final lookup never finds the entry missing.
C10_AlwaysReturns ==
    \A j \in Calls : UsesRegistry(j) =>
        /\ history[j].result # KeyError
        /\ instances[history[j].result].cls = history[j].cls

(***************************************************************************)
(* The sanitizer and the serializer applied to bounded inputs.             *)
(***************************************************************************)
SomeUuid == Uuid("5fda42fe-809b-4179-bad2-321d1a6090c7")

SanitizeLeaves ==
    {None, Bool(TRUE), Num(1), Str("a"), SomeUuid, Obj("Session", {})}
SanitizeKeys == {"a", "b"}

SerializeLeaves ==
    {None, Ellipsis, Num(1), SomeUuid, Obj("Agent", {}),
     Obj("Event", {"to_dict", "dict"})}
SerializeKeys == {"self", "a"}
\* the input of the documented example: {"self": obj, "a": None, "b": 1, "c": ...}
StrippedKeysExample ==
    Dict(<<Entry("self", Obj("Agent", {})), Entry("a", None),
           Entry("b", Num(1)), Entry("c", Ellipsis)>>)
\* inputs given whole: the example, and an object with each set of methods
GivenInputs ==
    {Obj("Event", caps) : caps \in SUBSET Capabilities} \cup {StrippedKeysExample}

RECURSIVE Nodes(_), NodesIn(_)
\* the number of leaves and containers of a value, and of a sequence of values
Nodes(v) ==
    CASE v.t = "list" -> 1 + NodesIn(v.items)
      [] v.t = "dict" -> 1 + NodesIn([i \in 1..Len(v.entries) |-> v.entries[i].v])
      [] OTHER -> 1
NodesIn(vs) == IF Len(vs) = 0 THEN 0 ELSE Nodes(vs[1]) + NodesIn(Tail(vs))
Built == NodesIn(args)

KeySeqs(len, keys) ==
    {ks \in [1..len -> keys] : \A i, j \in 1..len : ks[i] = ks[j] => i = j}

\* The caller builds the argument bottom up: leaves, then lists and dicts of
\* the values built last.
PushLeaf(leaves) ==
    /\ phase = "building"
    /\ Built < MaxNodes
    /\ \E leaf \in leaves : args' = Append(args, leaf)
    /\ UNCHANGED <<input, filtered, cleaned_obj, defaulted, output, phase>>
    /\ UNCHANGED <<heap, ao_instances, instances, pc, call, history, sched>>

BuildList ==
    /\ phase = "building"
    /\ Built < MaxNodes
    /\ \E n \in 0..Len(args) :
           args' = Append(SubSeq(args, 1, Len(args) - n),
                          List(SubSeq(args, Len(args) - n + 1, Len(args))))
    /\ UNCHANGED <<input, filtered, cleaned_obj, defaulted, output, phase>>
    /\ UNCHANGED <<heap, ao_instances, instances, pc, call, history, sched>>

BuildDict(keys) ==
    /\ phase = "building"
    /\ Built < MaxNodes
    /\ \E n \in 0..Len(args) : \E ks \in KeySeqs(n, keys) :
           args' = Append(SubSeq(args, 1, Len(args) - n),
                          Dict([i \in 1..n |->
                                  Entry(ks[i], args[Len(args) - n + i])]))
    /\ UNCHANGED <<input, filtered, cleaned_obj, defaulted, output, phase>>
    /\ UNCHANGED <<heap, ao_instances, instances, pc, call, history, sched>>

Ready == phase \in {"building", "given"} /\ Len(args) = 1

FilterUnjsonable ==
    /\ Ready
    /\ input' = args[1]
    /\ filtered' = filter_unjsonable(args[1])
    /\ output' = filtered'
    /\ phase' = "filtered"
    /\ UNCHANGED <<args, cleaned_obj, defaulted>>
    /\ UNCHANGED <<heap, ao_instances, instances, pc, call, history, sched>>

\* the sanitizer applied to its own result
FilterAgain ==
    /\ phase = "filtered"
    /\ output' = filter_unjsonable(filtered)
    /\ phase' = "refiltered"
    /\ UNCHANGED <<args, input, filtered, cleaned_obj, defaulted>>
    /\ UNCHANGED <<heap, ao_instances, instances, pc, call, history, sched>>

SafeSerialize ==
    /\ Ready
    /\ input' = args[1]
    /\ cleaned_obj' = remove_unwanted_items(args[1])
    /\ defaulted' = DefaultCalls(cleaned_obj')
    /\ output' = Str(json_dumps(cleaned_obj'))
    /\ phase' = "serialized"
    /\ UNCHANGED <<args, filtered>>
    /\ UNCHANGED <<heap, ao_instances, instances, pc, call, history, sched>>

NextSanitize ==
    \/ PushLeaf(SanitizeLeaves)
    \/ BuildList
    \/ BuildDict(SanitizeKeys)
    \/ FilterUnjsonable
    \/ FilterAgain

NextSerialize ==
    \/ PushLeaf(SerializeLeaves)
    \/ BuildList
    \/ BuildDict(SerializeKeys)
    \/ SafeSerialize

InitBuilding ==
    /\ args = <<>>
    /\ phase = "building"
InitGiven ==
    /\ \E v \in GivenInputs : args = <<v>>
    /\ phase = "given"
InitResults ==
    /\ input = None
    /\ filtered = None
    /\ cleaned_obj = None
    /\ defaulted = {}
    /\ output = None

InitSanitize ==
    InitRegistry /\ sched = "none" /\ InitBuilding /\ InitResults
InitSerialize ==
    InitRegistry /\ sched = "none" /\ (InitBuilding \/ InitGiven) /\ InitResults

SpecSanitize == InitSanitize /\ [][NextSanitize]_vars
SpecSerialize == InitSerialize /\ [][NextSerialize]_vars

(***************************************************************************)
(* Properties of the sanitizer and the serializer.                         *)
(***************************************************************************)
\* a Sanitized Value: null, boolean, number, string, and lists and string-keyed
\* mappings of Sanitized Values
RECURSIVE IsSanitized(_)
IsSanitized(v) ==
    \/ v.t \in {"none", "bool", "num", "str"}
    \/ v.t = "list" /\ \A i \in 1..Len(v.items) : IsSanitized(v.items[i])
    \/ v.t = "dict" /\ \A i \in 1..Len(v.entries) : IsSanitized(v.entries[i].v)

\* C4: for any input value, also at the top level, filter_unjsonable returns a
\* Sanitized Value.
C4_ReturnsSanitized == phase = "filtered" => IsSanitized(filtered)

\* wherever the argument holds a UUID, the result holds its string form
RECURSIVE UuidsConverted(_, _)
UuidsConverted(arg, res) ==
    CASE arg.t = "uuid" -> res = Str(arg.hex)
      [] arg.t = "list" ->
             /\ res.t = "list" /\ Len(res.items) = Len(arg.items)
             /\ \A i \in 1..Len(arg.items) :
                    UuidsConverted(arg.items[i], res.items[i])
      [] arg.t = "dict" ->
             /\ res.t = "dict" /\ Len(res.entries) = Len(arg.entries)
             /\ \A i \in 1..Len(arg.entries) :
                    UuidsConverted(arg.entries[i].v, res.entries[i].v)
      [] OTHER -> TRUE

\* C5: filter_unjsonable turns every UUID into its canonical string form,
\* whether it is the top-level argument, a mapping entry's value or a list
\* element.
C5_UuidToString == phase = "filtered" => UuidsConverted(input, filtered)

\* C6: filter_unjsonable is idempotent: applied to its own result it returns
\* that result again.
C6_Idempotent == phase = "refiltered" => output = filtered

RECURSIVE Holds(_, _)
\* value v holds a node of one of the types, at any depth
Holds(v, types) ==
    \/ v.t \in types
    \/ v.t = "list" /\ \E i \in 1..Len(v.items) : Holds(v.items[i], types)
    \/ v.t = "dict" /\ \E i \in 1..Len(v.entries) : Holds(v.entries[i].v, types)

C6_Witness ==
    /\ phase = "refiltered"
    /\ input.t = "dict"
    /\ \E i \in 1..Len(input.entries) :
           /\ input.entries[i].v.t = "list"
           /\ Holds(input.entries[i].v, {"uuid"})
           /\ Holds(input.entries[i].v, {"obj"})
    /\ filtered # input
    /\ output = filtered

\* res is arg with the unwanted entries of every mapping left out, and
\* everything else kept in place and in order
RECURSIVE IsStripOf(_, _)
IsStripOf(arg, res) ==
    CASE arg.t = "dict" ->
             LET unwanted(e) == e.v = None \/ e.v = Ellipsis \/ e.k = "self"
                 keep == {i \in 1..Len(arg.entries) : ~unwanted(arg.entries[i])}
                 place(i) == Cardinality({j \in keep : j <= i})
             IN  /\ res.t = "dict"
                 /\ Len(res.entries) = Cardinality(keep)
                 /\ \A i \in keep :
                        /\ res.entries[place(i)].k = arg.entries[i].k
                        /\ IsStripOf(arg.entries[i].v, res.entries[place(i)].v)
      [] arg.t = "list" ->
             /\ res.t = "list"
             /\ Len(res.items) = Len(arg.items)
             /\ \A i \in 1..Len(arg.items) : IsStripOf(arg.items[i], res.items[i])
      [] OTHER -> res = arg

\* C7: the strip phase of safe_serialize removes, from every mapping reachable
\* through mappings and lists, exactly the entries whose value is None or
\* Ellipsis or whose key is "self", and keeps every other entry and every list
\* element in order; {"self": obj, "a": None, "b": 1, "c": ...} gives {"b": 1}.
C7_Strip ==
    phase = "serialized" =>
        /\ IsStripOf(input, cleaned_obj)
        /\ input = StrippedKeysExample => output = Str("{\"b\": 1}")

C7_Witness ==
    /\ phase = "serialized"
    /\ input = StrippedKeysExample
    /\ cleaned_obj = Dict(<<Entry("b", Num(1))>>)
    /\ output = Str("{\"b\": 1}")

\* the probe order of the fallback
Priority == <<"model_dump_json", "to_json", "json", "to_dict", "dict">>
Rank(m) == CHOOSE i \in 1..Len(Priority) : Priority[i] = m
\* the method of o that comes first in the probe order
FirstCapability(o) ==
    CHOOSE m \in o.caps : \A n \in o.caps : Rank(m) <= Rank(n)

\* C8: for a value the encoder cannot serialize natively the fallback returns
\* the string form of a UUID, otherwise what the first method the value has in
\* the order model_dump_json, to_json, json, to_dict, dict returns, and with
\* none of the five the placeholder <<non-serializable: TypeName>>.
C8_Fallback ==
    phase = "serialized" =>
        /\ \A c \in defaulted :
               IF c.arg.t = "uuid" THEN c.ret = Str(c.arg.hex)
               ELSE IF c.arg.caps = {}
               THEN c.ret = Str("<<non-serializable: " \o c.arg.cls \o ">>")
               ELSE c.ret = CallMethod(c.arg, FirstCapability(c.arg))
        /\ (input.t = "obj" /\ input.caps = {"to_dict", "dict"}) =>
               output = Str("{\"via\": \"" \o input.cls \o ".to_dict\"}")
        /\ input = Obj("Agent", {}) =>
               output = Str("\"<<non-serializable: Agent>>\"")

C8_Witness ==
    /\ phase = "serialized"
    /\ input = Obj("Event", {"to_dict", "dict"})
    /\ defaulted = {[arg |-> input, ret |-> CallMethod(input, "to_dict")]}
    /\ output = Str("{\"via\": \"Event.to_dict\"}")
====
